---- MODULE Spec2Model ----
(***************************************************************************)
(* Model of the price scraper service (src/app.py): the TTL cache          *)
(* SimpleCache, the request pipeline PriceScraper.extract_price, the       *)
(* structured and the heuristic price extractors, and the webhook caller.  *)
(*                                                                         *)
(* Strings are sequences of one-character strings; Python indices are      *)
(* 0-based, so the Python slice s[a:b] is Slice(s, a, b) below.            *)
(***************************************************************************)
EXTENDS Integers, Sequences, FiniteSets, TLC

VARIABLES
    store,      \* cache._store: sequence of entries in dict insertion order
    now,        \* time.time(), in whole seconds
    heap,       \* list objects (the all_prices lists), by reference
    held,       \* the result dict the caller holds, or None
    last,       \* what the last completed operation did and returned
    thr,        \* the request threads of the concurrent specification
    calls,      \* per URL, what its earlier calls returned (history)
    url,        \* input of the extractors: the URL
    page_text,  \* input of the heuristic extractor: document.body.innerText
    page,       \* input of the structured extractor: selector -> element
    phase,      \* which extractor input is loaded, and whether it has run
    out         \* what the extractor returned

vars == <<store, now, heap, held, last, thr, calls, url, page_text, page, phase, out>>

None == "None"
\* no price: what a rule that found nothing hands back
NoPrice == <<"None">>

(***************************************************************************)
(* Strings                                                                 *)
(***************************************************************************)
Min(a, b) == IF a < b THEN a ELSE b
Max(a, b) == IF a > b THEN a ELSE b

\* Python s[a:b] for 0 <= a, with b clipped to len(s)
Slice(s, a, b) == SubSeq(s, a + 1, Min(b, Len(s)))

IsDigit(c) == c \in {"0", "1", "2", "3", "4", "5", "6", "7", "8", "9"}
\* the character class [\d,]
IsNumCh(c) == IsDigit(c) \/ c = ","
\* the character class \s
IsSpace(c) == c \in {" ", "\n", "\t"}

\* number of consecutive digits of s from the 1-based position i
RECURSIVE DigitRun(_, _)
DigitRun(s, i) ==
    IF i <= Len(s) /\ IsDigit(s[i]) THEN 1 + DigitRun(s, i + 1) ELSE 0

RECURSIVE NumRun(_, _)
NumRun(s, i) ==
    IF i <= Len(s) /\ IsNumCh(s[i]) THEN 1 + NumRun(s, i + 1) ELSE 0

RECURSIVE SpaceRun(_, _)
SpaceRun(s, i) ==
    IF i <= Len(s) /\ IsSpace(s[i]) THEN 1 + SpaceRun(s, i + 1) ELSE 0

\* s has pat at the 1-based position i
StartsAt(s, pat, i) ==
    /\ i >= 1
    /\ i + Len(pat) - 1 <= Len(s)
    /\ SubSeq(s, i, i + Len(pat) - 1) = pat

\* str.find: the lowest 0-based index of pat in s, or -1
Find(s, pat) ==
    LET hits == {i \in 1..Len(s) : StartsAt(s, pat, i)}
    IN  IF hits = {} THEN -1
        ELSE (CHOOSE i \in hits : \A j \in hits : i <= j) - 1

\* str.rfind: the highest 0-based index of pat in s, or -1
RFind(s, pat) ==
    LET hits == {i \in 1..Len(s) : StartsAt(s, pat, i)}
    IN  IF hits = {} THEN -1
        ELSE (CHOOSE i \in hits : \A j \in hits : i >= j) - 1

\* pat in s
Contains(s, pat) == Find(s, pat) # -1

LowerCh(c) ==
    CASE c = "H" -> "h"
      [] c = "N" -> "n"
      [] c = "J" -> "j"
      [] c = "B" -> "b"
      [] c = "F" -> "f"
      [] c = "O" -> "o"
      [] OTHER -> c

\* str.lower
Lower(s) == [i \in 1..Len(s) |-> LowerCh(s[i])]

RECURSIVE LStrip(_)
LStrip(s) ==
    IF s # <<>> /\ IsSpace(s[1]) THEN LStrip(Tail(s)) ELSE s

RECURSIVE RStrip(_)
RStrip(s) ==
    IF s # <<>> /\ IsSpace(s[Len(s)]) THEN RStrip(SubSeq(s, 1, Len(s) - 1)) ELSE s

\* str.strip
Strip(s) == RStrip(LStrip(s))

(***************************************************************************)
(* Regular expressions of the extractors                                   *)
(***************************************************************************)
\* length of the match of \$[\d,]+\.?\d* at the 1-based position i, 0 if none
PriceMatchLen(s, i) ==
    IF i > Len(s) \/ s[i] # "$" THEN 0
    ELSE LET n == NumRun(s, i + 1)
             j == i + 1 + n
             dot == IF j <= Len(s) /\ s[j] = "." THEN 1 ELSE 0
         IN  IF n = 0 THEN 0 ELSE 1 + n + dot + DigitRun(s, j + dot)

\* re.findall(r"\$[\d,]+\.?\d*", s), scanning from the 1-based position i
RECURSIVE FindPricesFrom(_, _)
FindPricesFrom(s, i) ==
    IF i > Len(s) THEN <<>>
    ELSE LET m == PriceMatchLen(s, i)
         IN  IF m > 0
             THEN <<SubSeq(s, i, i + m - 1)>> \o FindPricesFrom(s, i + m)
             ELSE FindPricesFrom(s, i + 1)

FindPrices(s) == FindPricesFrom(s, 1)

\* re.search(r"\$[\d,]+\.?\d*", s): the first match, or NoPrice
SearchPrice(s) ==
    LET ps == FindPrices(s) IN IF ps = <<>> THEN NoPrice ELSE ps[1]

EASAVE ==
    <<"E", "A", "S", "A", "V", "E">>

\* length of the match of \$[\d,]+\.?\d*\s*EASAVE at position i, 0 if none
EasaveMatchLen(s, i) ==
    LET m == PriceMatchLen(s, i)
        sp == SpaceRun(s, i + m)
    IN  IF m > 0 /\ StartsAt(s, EASAVE, i + m + sp)
        THEN m + sp + Len(EASAVE)
        ELSE 0

\* re.findall(r"\$[\d,]+\.?\d*\s*EASAVE", s)
RECURSIVE FindEasaveFrom(_, _)
FindEasaveFrom(s, i) ==
    IF i > Len(s) THEN <<>>
    ELSE LET m == EasaveMatchLen(s, i)
         IN  IF m > 0
             THEN <<SubSeq(s, i, i + m - 1)>> \o FindEasaveFrom(s, i + m)
             ELSE FindEasaveFrom(s, i + 1)

FindEasave(s) == FindEasaveFrom(s, 1)

\* length of the match of [\d,]+(?:\.\d{2})? at position i, 0 if none
NumberMatchLen(s, i) ==
    LET n == NumRun(s, i)
        j == i + n
    IN  IF n = 0 THEN 0
        ELSE IF j + 2 <= Len(s) /\ s[j] = "." /\ IsDigit(s[j + 1]) /\ IsDigit(s[j + 2])
             THEN n + 3
             ELSE n

\* re.findall(r"[\d,]+(?:\.\d{2})?", s)
RECURSIVE FindNumbersFrom(_, _)
FindNumbersFrom(s, i) ==
    IF i > Len(s) THEN <<>>
    ELSE LET m == NumberMatchLen(s, i)
         IN  IF m > 0
             THEN <<SubSeq(s, i, i + m - 1)>> \o FindNumbersFrom(s, i + m)
             ELSE FindNumbersFrom(s, i + 1)

FindNumbers(s) == FindNumbersFrom(s, 1)

\* re.match(r"^[\d,]+(?:\.\d{2})?$", s) for a stripped s
IsNumericOnly(s) ==
    LET m == NumberMatchLen(s, 1) IN m > 0 /\ m = Len(s)

\* re.match(r"^[\d,]+\.?\d*$", s); $ also matches before one trailing newline
IsMetaNumeric(s) ==
    LET n == NumRun(s, 1)
        dot == IF n + 1 <= Len(s) /\ s[n + 1] = "." THEN 1 ELSE 0
        e == n + dot + DigitRun(s, n + dot + 1)
    IN  /\ n > 0
        /\ \/ e = Len(s)
           \/ e + 1 = Len(s) /\ s[Len(s)] = "\n"

DigitVal(c) ==
    CASE c = "0" -> 0 [] c = "1" -> 1 [] c = "2" -> 2 [] c = "3" -> 3
      [] c = "4" -> 4 [] c = "5" -> 5 [] c = "6" -> 6 [] c = "7" -> 7
      [] c = "8" -> 8 [] c = "9" -> 9

\* the value of a sequence of digits (0 for the empty one)
RECURSIVE IntOf(_)
IntOf(ds) ==
    IF ds = <<>> THEN 0
    ELSE 10 * IntOf(SubSeq(ds, 1, Len(ds) - 1)) + DigitVal(ds[Len(ds)])

\* re.sub(r"[$,]", "", s)
StripCurrency(s) == SelectSeq(s, LAMBDA c : c # "$" /\ c # ",")

\* float(s) for s of the shape digits* [.] digits*: raises ValueError when s
\* holds no digit; the value is kept as its integer part and whether the
\* fraction is positive (tokens of the model have at most two decimals, so
\* no rounding to the nearest double happens)
ParseFloat(s) ==
    LET d == Find(s, <<".">>)
        ip == IF d = -1 THEN s ELSE Slice(s, 0, d)
        fp == IF d = -1 THEN <<>> ELSE Slice(s, d + 1, Len(s))
    IN  [ok |-> \E i \in 1..Len(s) : IsDigit(s[i]),
         int |-> IntOf(ip),
         fracPos |-> \E i \in 1..Len(fp) : fp[i] # "0"]

FALLBACK_THRESHOLD == 100

\* float(re.sub(r"[$,]", "", price)) > 100, False when float() raises
Over100(price) ==
    LET f == ParseFloat(StripCurrency(price))
    IN  /\ f.ok
        /\ \/ f.int > FALLBACK_THRESHOLD
           \/ f.int = FALLBACK_THRESHOLD /\ f.fracPos

(***************************************************************************)
(* PriceScraper._find_main_price                                           *)
(***************************************************************************)
\* 'Available on'
AVAILABLE_ON ==
    <<"A", "v", "a", "i", "l", "a", "b", "l", "e", " ", "o", "n">>
\* 'FROM'
FROM ==
    <<"F", "R", "O", "M">>
\* 'Log in to see if you have coupons'
LOGIN_PROMPT ==
    <<"L", "o", "g", " ", "i", "n", " ", "t", "o", " ", "s", "e", "e", " ",
      "i", "f", " ", "y", "o", "u", " ", "h", "a", "v", "e", " ",
      "c", "o", "u", "p", "o", "n", "s">>
\* 'Ticket'
TICKET ==
    <<"T", "i", "c", "k", "e", "t">>
\* 'Ways you can get it'
WAYS_YOU_CAN_GET_IT ==
    <<"W", "a", "y", "s", " ", "y", "o", "u", " ", "c", "a", "n", " ",
      "g", "e", "t", " ", "i", "t">>
\* 'harveynorman'
HARVEYNORMAN ==
    <<"h", "a", "r", "v", "e", "y", "n", "o", "r", "m", "a", "n">>
\* 'jbhifi'
JBHIFI ==
    <<"j", "b", "h", "i", "f", "i">>
\* 'officeworks'
OFFICEWORKS ==
    <<"o", "f", "f", "i", "c", "e", "w", "o", "r", "k", "s">>

HN_WINDOW == 500
JB_WINDOW == 300
TICKET_WINDOW == 100
OW_WINDOW == 300

Last(q) == q[Len(q)]

\* mutant of HarveyWindow: the window taken after the marker, not before it
HarveyWindowAfterMarker(text) ==
    LET marker_index == Find(text, AVAILABLE_ON)
    IN  Slice(text, marker_index, marker_index + HN_WINDOW)

\* the Harvey Norman window: text[max(0, marker_index - 500):marker_index]
HarveyWindow(text) ==
    LET marker_index == Find(text, AVAILABLE_ON)
    IN  Slice(text, Max(0, marker_index - HN_WINDOW), marker_index)

\* the Harvey Norman branch; NoPrice when it falls through
HarveyNormanPrice(text) ==
    LET search_text == HarveyWindow(text)
        easave == FindEasave(search_text)
        eprices == IF easave = <<>> THEN <<>> ELSE FindPrices(Last(easave))
        from_idx == RFind(search_text, FROM)
        fprices == IF from_idx = -1 THEN <<>>
                   ELSE FindPrices(Slice(search_text, from_idx, Len(search_text)))
        prices == FindPrices(search_text)
    IN  IF eprices # <<>> THEN eprices[1]
        ELSE IF fprices # <<>> THEN fprices[1]
        ELSE IF prices # <<>> THEN Last(prices)
        ELSE NoPrice

\* the JB Hi-Fi branch; NoPrice when it falls through
JbHifiPrice(text) ==
    LET lidx == Find(text, LOGIN_PROMPT)
        lprices == IF lidx = -1 THEN <<>>
                   ELSE FindPrices(Slice(text, Max(0, lidx - JB_WINDOW), lidx))
        tidx == Find(text, TICKET)
        numbers == IF tidx = -1 THEN <<>>
                   ELSE FindNumbers(Slice(text, tidx, tidx + TICKET_WINDOW))
    IN  IF lprices # <<>> THEN Last(lprices)
        ELSE IF Len(numbers) >= 2 THEN <<"$">> \o numbers[2]
        ELSE IF numbers # <<>> THEN <<"$">> \o numbers[1]
        ELSE NoPrice

\* the Officeworks branch; NoPrice when it falls through
OfficeworksPrice(text) ==
    LET idx == Find(text, WAYS_YOU_CAN_GET_IT)
        prices == FindPrices(Slice(text, Max(0, idx - OW_WINDOW), idx))
    IN  IF prices # <<>> THEN Last(prices) ELSE NoPrice

\* the fallback: the first price over $100, else the first price, else ""
FallbackPrice(all_prices) ==
    LET over == {i \in 1..Len(all_prices) : Over100(all_prices[i])}
    IN  IF over # {}
        THEN all_prices[CHOOSE i \in over : \A j \in over : i <= j]
        ELSE IF all_prices # <<>> THEN all_prices[1] ELSE <<>>

\* which rule of _find_main_price returns, in the order the code tries them
MainPriceRule(text, u) ==
    LET url_lower == Lower(u)
    IN  IF /\ Contains(url_lower, HARVEYNORMAN)
           /\ Contains(text, AVAILABLE_ON)
           /\ HarveyNormanPrice(text) # NoPrice
        THEN "harveynorman"
        ELSE IF Contains(url_lower, JBHIFI) /\ JbHifiPrice(text) # NoPrice
        THEN "jbhifi"
        ELSE IF /\ Contains(url_lower, OFFICEWORKS)
                /\ Contains(text, WAYS_YOU_CAN_GET_IT)
                /\ OfficeworksPrice(text) # NoPrice
        THEN "officeworks"
        ELSE "fallback"

find_main_price(text, all_prices, u) ==
    LET rule == MainPriceRule(text, u)
    IN  CASE rule = "harveynorman" -> HarveyNormanPrice(text)
          [] rule = "jbhifi" -> JbHifiPrice(text)
          [] rule = "officeworks" -> OfficeworksPrice(text)
          [] OTHER -> FallbackPrice(all_prices)

ALL_PRICES_CAP == 10

\* list(dict.fromkeys(q)): q without repeats, first occurrences kept in order
RECURSIVE Dedup(_)
Dedup(q) ==
    IF q = <<>> THEN <<>>
    ELSE LET rest == Dedup(SubSeq(q, 1, Len(q) - 1))
         IN  IF \E i \in 1..Len(rest) : rest[i] = Last(q)
             THEN rest
             ELSE Append(rest, Last(q))

\* the all_prices field of the result: list(dict.fromkeys(all_prices))[:10]
ReportedPrices(all_prices) == Slice(Dedup(all_prices), 0, ALL_PRICES_CAP)


(***************************************************************************)
(* Inputs of the extractors                                                *)
(***************************************************************************)
\* 'HarveyNorman.com'
URL_HN ==
    <<"H", "a", "r", "v", "e", "y", "N", "o", "r", "m", "a", "n", ".", "c",
      "o", "m">>
\* 'JBHiFi.com'
URL_JB ==
    <<"J", "B", "H", "i", "F", "i", ".", "c", "o", "m">>
\* 'officeworks.com'
URL_OW ==
    <<"o", "f", "f", "i", "c", "e", "w", "o", "r", "k", "s", ".", "c", "o",
      "m">>
\* 'shop.com'
URL_SHOP ==
    <<"s", "h", "o", "p", ".", "c", "o", "m">>

ExtractorUrls == {URL_HN, URL_JB, URL_OW, URL_SHOP}

\* '$499.00'
F_P499 ==
    <<"$", "4", "9", "9", ".", "0", "0">>
\* '$45.00'
F_P45 ==
    <<"$", "4", "5", ".", "0", "0">>
\* ' stuff '
F_STUFF ==
    <<" ", "s", "t", "u", "f", "f", " ">>
\* 'FROM '
F_FROM ==
    <<"F", "R", "O", "M", " ">>
\* ' EASAVE '
F_EASAVE ==
    <<" ", "E", "A", "S", "A", "V", "E", " ">>
\* 'Ticket '
F_TICKET ==
    <<"T", "i", "c", "k", "e", "t", " ">>

Fragments == {F_P499, F_P45, F_STUFF, F_FROM, F_EASAVE, F_TICKET, AVAILABLE_ON}

\* '...$499.00 stuff... Available on eBay FROM $399.00 more text'
SCENARIO_A ==
    <<".", ".", ".", "$", "4", "9", "9", ".", "0", "0", " ", "s", "t", "u",
      "f", "f", ".", ".", ".", " ", "A", "v", "a", "i", "l", "a", "b", "l",
      "e", " ", "o", "n", " ", "e", "B", "a", "y", " ", "F", "R", "O", "M",
      " ", "$", "3", "9", "9", ".", "0", "0", " ", "m", "o", "r", "e", " ",
      "t", "e", "x", "t">>
\* 'Ticket $129.00 $89.00 save now'
SCENARIO_B ==
    <<"T", "i", "c", "k", "e", "t", " ", "$", "1", "2", "9", ".", "0", "0",
      " ", "$", "8", "9", ".", "0", "0", " ", "s", "a", "v", "e", " ", "n",
      "o", "w">>
\* '$45.00 $199.99 $12.50'
SCENARIO_C ==
    <<"$", "4", "5", ".", "0", "0", " ", "$", "1", "9", "9", ".", "9", "9",
      " ", "$", "1", "2", ".", "5", "0">>
\* 'no prices here'
SCENARIO_D ==
    <<"n", "o", " ", "p", "r", "i", "c", "e", "s", " ", "h", "e", "r", "e">>
\* '$30.00 Log in to see if you have coupons'
LOGIN_TEXT ==
    <<"$", "3", "0", ".", "0", "0", " ", "L", "o", "g", " ", "i", "n", " ",
      "t", "o", " ", "s", "e", "e", " ", "i", "f", " ", "y", "o", "u", " ",
      "h", "a", "v", "e", " ", "c", "o", "u", "p", "o", "n", "s">>
\* '$20.00 $250 Ways you can get it $9'
WAYS_TEXT ==
    <<"$", "2", "0", ".", "0", "0", " ", "$", "2", "5", "0", " ", "W", "a",
      "y", "s", " ", "y", "o", "u", " ", "c", "a", "n", " ", "g", "e", "t",
      " ", "i", "t", " ", "$", "9">>
\* '$399.00'
P399 ==
    <<"$", "3", "9", "9", ".", "0", "0">>
\* '$200'
P200 ==
    <<"$", "2", "0", "0">>

\* at most MaxFrags fragments make a generated page text
MaxFrags == 3
\* the longest run of distinct small prices put before a large one
MaxRun == 11

RECURSIVE Concat(_)
Concat(q) == IF q = <<>> THEN <<>> ELSE q[1] \o Concat(Tail(q))

FragTexts ==
    {Concat(q) : q \in UNION {[1..n -> Fragments] : n \in 0..MaxFrags}}

DigitCh(d) ==
    CASE d = 0 -> "0" [] d = 1 -> "1" [] d = 2 -> "2" [] d = 3 -> "3"
      [] d = 4 -> "4" [] d = 5 -> "5" [] d = 6 -> "6" [] d = 7 -> "7"
      [] d = 8 -> "8" [] d = 9 -> "9"

RECURSIVE Decimal(_)
Decimal(k) ==
    IF k < 10 THEN <<DigitCh(k)>> ELSE Decimal(k \div 10) \o <<DigitCh(k % 10)>>

\* "$1 $2 ... $n " : n distinct prices, none over 100
RECURSIVE SmallPrices(_)
SmallPrices(n) ==
    IF n = 0 THEN <<>> ELSE SmallPrices(n - 1) \o <<"$">> \o Decimal(n) \o <<" ">>

\* n distinct small prices, then $200
RunTexts == {SmallPrices(n) \o P200 : n \in 0..MaxRun}

Texts ==
    FragTexts \cup RunTexts
        \cup {SCENARIO_A, SCENARIO_B, SCENARIO_C, SCENARIO_D, LOGIN_TEXT, WAYS_TEXT}

(***************************************************************************)
(* The heuristic extractor applied to one page text                        *)
(***************************************************************************)
NoCache == <<>>
NoThreads == <<>>

InitHeuristic ==
    /\ url \in ExtractorUrls
    /\ page_text \in Texts
    /\ phase = "text"
    /\ out = None
    /\ page = None
    /\ store = NoCache /\ now = 0 /\ heap = None /\ held = None
    /\ last = None /\ thr = NoThreads /\ calls = None

\* extract_price, lines 157-168, for a page whose structured price is "":
\* all_prices = re.findall(...); main_price = _find_main_price(...);
\* the result reports list(dict.fromkeys(all_prices))[:10]
HeuristicResult(text, u) ==
    LET all_prices == FindPrices(text)
    IN  [price |-> find_main_price(text, all_prices, u),
         all_prices |-> ReportedPrices(all_prices),
         rule |-> MainPriceRule(text, u)]

ApplyHeuristic ==
    /\ phase = "text"
    /\ phase' = "heuristic done"
    /\ out' = HeuristicResult(page_text, url)
    /\ UNCHANGED <<store, now, heap, held, last, thr, calls, url, page_text, page>>

SpecHeuristic == InitHeuristic /\ [][ApplyHeuristic]_vars


Range(q) == {q[i] : i \in 1..Len(q)}

HeuristicDone == phase = "heuristic done"
ClassA(u) == Contains(Lower(u), HARVEYNORMAN)

\* the text before the first anchor, at most 500 characters of it
BeforeAnchor(text) ==
    LET a == Find(text, AVAILABLE_ON)
    IN  SubSeq(text, Max(1, a - 499), a)

\* the prices that follow the last FROM of w
AfterLastFrom(w) ==
    LET f == RFind(w, FROM)
    IN  IF f = -1 THEN <<>> ELSE FindPrices(SubSeq(w, f + 1, Len(w)))

\* C8 as stated: for Scenario A (an unrelated price before the anchor
\* 'Available on', FROM and a price after it) and a Harvey Norman URL, the
\* heuristic extractor returns the price after FROM, "$399.00".
C8_FromAfterAnchorWins ==
    (HeuristicDone /\ ClassA(url) /\ page_text = SCENARIO_A) => out.price = P399

\* C8 amended: for a Harvey Norman URL and a text holding the anchor, only the
\* (at most 500) characters before the first anchor are searched: Scenario A
\* yields "$499.00", the last price before the anchor; a price is returned by
\* the Harvey Norman rule exactly when the window holds one, and it is a price
\* of the window; without an EASAVE price, the first price after the last FROM
\* of the window wins when there is one, and the last price of the window
\* otherwise.
C8_WindowBeforeAnchor ==
    (HeuristicDone /\ ClassA(url) /\ Contains(page_text, AVAILABLE_ON)) =>
        LET w == BeforeAnchor(page_text)
            ps == FindPrices(w)
            fs == AfterLastFrom(w)
        IN  /\ page_text = SCENARIO_A => out.price = F_P499
            /\ (ps # <<>>) <=> (out.rule = "harveynorman")
            /\ ps # <<>> => out.price \in Range(ps)
            /\ (ps # <<>> /\ ~Contains(w, EASAVE) /\ fs # <<>>) => out.price = fs[1]
            /\ (ps # <<>> /\ ~Contains(w, EASAVE) /\ fs = <<>>) => out.price = Last(ps)

\* C8 witness: Scenario A was extracted for a Harvey Norman URL and gave the
\* price before the anchor.
C8_Witness ==
    /\ HeuristicDone
    /\ url = URL_HN
    /\ page_text = SCENARIO_A
    /\ out.rule = "harveynorman"
    /\ out.price = F_P499

\* the fallback of the claim, over the reported (deduplicated, capped) prices
ClaimedFallback(reported) ==
    IF \E i \in 1..Len(reported) : Over100(reported[i])
    THEN reported[CHOOSE i \in 1..Len(reported) :
                    /\ Over100(reported[i])
                    /\ \A j \in 1..(i - 1) : ~Over100(reported[j])]
    ELSE IF reported # <<>> THEN reported[1] ELSE <<>>

\* C9: when no site-class rule yields a price, the returned price is the first
\* token of the reported all_prices over 100, else its first token, else "";
\* so a non-empty fallback price is an element of the reported all_prices.
C9_FallbackFromReported ==
    (HeuristicDone /\ out.rule = "fallback") =>
        /\ out.price = ClaimedFallback(out.all_prices)
        /\ out.price # <<>> => out.price \in Range(out.all_prices)


(***************************************************************************)
(* PriceScraper._extract_structured_price                                  *)
(***************************************************************************)
JB_SELECTORS ==
    <<"span[class*=\"PriceTag_actual\"]",
      "span[class*=\"PriceFont_fontStyle\"]",
      ".price__current",
      "[data-testid=\"price-display\"]">>

GENERIC_SELECTORS ==
    <<"[itemprop=\"price\"]",
      "[data-testid*=\"price\"]",
      ".price",
      ".product-price",
      ".current-price",
      "meta[itemprop=\"price\"]">>

\* selector.startswith("meta")
IsMetaSelector(sel) == sel = "meta[itemprop=\"price\"]"

\* What page.query_selector(sel) finds: no element (ABSENT), an element whose
\* query or read raises (RAISES), or an element given by the string that
\* inner_text() returns (get_attribute("content") for the meta selector; the
\* empty string also stands for a missing content attribute, both are falsy)
ABSENT == [kind |-> "absent", text |-> <<>>]
RAISES == [kind |-> "raises", text |-> <<>>]
Element(t) == [kind |-> "element", text |-> t]
HasElement(e) == e.kind = "element"

\* one iteration of the JB Hi-Fi loop: the price returned, or NoPrice to continue
JbSelectorPrice(e) ==
    IF ~HasElement(e) THEN NoPrice
    ELSE LET text == Strip(e.text)
         IN  IF IsNumericOnly(text) THEN <<"$">> \o text
             ELSE SearchPrice(text)

\* one iteration of the generic loop: the price returned, or NoPrice to continue
GenericSelectorPrice(sel, e) ==
    IF ~HasElement(e) THEN NoPrice
    ELSE IF IsMetaSelector(sel)
         THEN IF e.text # <<>> /\ IsMetaNumeric(e.text) THEN <<"$">> \o e.text ELSE NoPrice
         ELSE SearchPrice(e.text)

\* the selectors in the order the code tries them for url u
SelectorOrder(u) ==
    (IF Contains(Lower(u), JBHIFI) THEN JB_SELECTORS ELSE <<>>) \o GENERIC_SELECTORS

\* what the i-th selector tried yields
SelectorPrice(pg, u, i) ==
    LET sel == SelectorOrder(u)[i]
    IN  IF Contains(Lower(u), JBHIFI) /\ i <= Len(JB_SELECTORS)
        THEN JbSelectorPrice(pg[sel])
        ELSE GenericSelectorPrice(sel, pg[sel])

\* the price and the index of the selector that returned it ("" and 0 if none)
extract_structured_price(pg, u) ==
    LET yields == {i \in 1..Len(SelectorOrder(u)) : SelectorPrice(pg, u, i) # NoPrice}
    IN  IF yields = {} THEN [price |-> <<>>, index |-> 0]
        ELSE LET i == CHOOSE i \in yields : \A j \in yields : i <= j
             IN  [price |-> SelectorPrice(pg, u, i), index |-> i]

\* '1,299.00'
E_1299 ==
    <<"1", ",", "2", "9", "9", ".", "0", "0">>
\* '899'
E_899 ==
    <<"8", "9", "9">>
\* '$899'
E_D899 ==
    <<"$", "8", "9", "9">>
\* '12.5'
E_12_5 ==
    <<"1", "2", ".", "5">>
\* 'n/a'
E_NA ==
    <<"n", "/", "a">>
\* ' 45 '
E_PAD ==
    <<" ", "4", "5", " ">>

ElementTexts == {E_1299, E_899, E_D899, E_12_5, E_NA, E_PAD, <<>>}

AllSelectors == Range(JB_SELECTORS) \cup Range(GENERIC_SELECTORS)

\* at most MaxElems selectors of a page match an element
MaxElems == 2

\* the pages on which at most n selectors match an element
Pages(n) ==
    UNION {{[s \in AllSelectors |-> IF s \in S THEN f[s] ELSE ABSENT] :
                f \in [S -> {Element(t) : t \in ElementTexts} \cup {RAISES}]} :
           S \in {T \in SUBSET AllSelectors : Cardinality(T) <= n}}

InitStructured ==
    /\ url \in {URL_JB, URL_SHOP}
    /\ page \in Pages(MaxElems)
    /\ phase = "page"
    /\ out = None
    /\ page_text = None
    /\ store = NoCache /\ now = 0 /\ heap = None /\ held = None
    /\ last = None /\ thr = NoThreads /\ calls = None

ApplyStructured ==
    /\ phase = "page"
    /\ phase' = "structured done"
    /\ out' = extract_structured_price(page, url)
    /\ UNCHANGED <<store, now, heap, held, last, thr, calls, url, page_text, page>>

SpecStructured == InitStructured /\ [][ApplyStructured]_vars

StructuredDone == phase = "structured done"

\* what the claim says a selector's element yields: "$" + text for a purely
\* numeric text, else the currency-prefixed token found in it, else nothing
ClaimedSelectorPrice(e) ==
    IF ~HasElement(e) THEN NoPrice
    ELSE IF IsNumericOnly(e.text) THEN <<"$">> \o e.text
    ELSE SearchPrice(e.text)

\* C10: for every selector tried, of the site-specific and of the generic list
\* alike, when no earlier selector yields a price and the matched element's
\* text is purely numeric, the extractor returns that text prefixed with "$".
C10_NumericNormalisedEverywhere ==
    StructuredDone =>
        \A i \in 1..Len(SelectorOrder(url)) :
            LET e == page[SelectorOrder(url)[i]]
            IN  (/\ HasElement(e)
                 /\ IsNumericOnly(e.text)
                 /\ \A j \in 1..(i - 1) :
                        ClaimedSelectorPrice(page[SelectorOrder(url)[j]]) = NoPrice)
                => out.price = <<"$">> \o e.text


(***************************************************************************)
(* Objects.  A Python dict is modelled by value, as a function from its    *)
(* keys: every dict the cache stores is made by value.copy() inside set    *)
(* and never handed out, and every dict it hands out is made by            *)
(* value.copy() inside get, so no two holders ever share a dict.  The copy *)
(* is shallow: the list under "all_prices" is shared, so lists are held by *)
(* reference, heap maps the references to the lists' current contents.     *)
(***************************************************************************)
EmptyHeap == <<>>
\* no dict (None)
NoDict == [none |-> TRUE]

HasList(d) == "all_prices" \in DOMAIN d

\* d[k] = v
SetItem(d, k, v) == [x \in DOMAIN d \cup {k} |-> IF x = k THEN v ELSE d[x]]

\* value.copy(): a new dict with the same items, lists shared
CopyDict(d) == d

\* a dict with its list read through: what a reader of the object sees
Deep(h, d) ==
    IF HasList(d) THEN SetItem(d, "all_prices", h[d["all_prices"]]) ELSE d

\* the list references of the dicts of ds, in order of first appearance
RECURSIVE RefsOf(_)
RefsOf(ds) ==
    IF ds = <<>> THEN <<>>
    ELSE LET rest == RefsOf(SubSeq(ds, 1, Len(ds) - 1))
             d == ds[Len(ds)]
         IN  IF HasList(d) /\ d["all_prices"] \notin Range(rest)
             THEN Append(rest, d["all_prices"])
             ELSE rest

\* the new name of the reference r: its place in refs
Renamed(refs, r) == CHOOSE i \in 1..Len(refs) : refs[i] = r

RenameDict(refs, d) ==
    IF HasList(d) THEN SetItem(d, "all_prices", Renamed(refs, d["all_prices"])) ELSE d

\* garbage collection: the lists no dict of the store or of the caller refers
\* to are dropped and the others renamed in order of appearance
Collect(st, h, d) ==
    LET refs == RefsOf([i \in 1..Len(st) |-> st[i].value] \o <<d>>)
    IN  [store |-> [i \in 1..Len(st) |->
                        [st[i] EXCEPT !.value = RenameDict(refs, @)]],
         heap |-> [i \in 1..Len(refs) |-> h[refs[i]]],
         held |-> RenameDict(refs, d)]

(***************************************************************************)
(* SimpleCache                                                             *)
(***************************************************************************)
\* ScraperConfig.CACHE_TTL_SECONDS, scaled down from 300
CACHE_TTL_SECONDS == 1
\* the size limit of SimpleCache.set, scaled down from 1000
MAX_ENTRIES == 1
\* the number of oldest entries SimpleCache.set removes, scaled down from 100
EVICT_COUNT == 1
\* the clock stops at MaxNow
MaxNow == 2

Entry(k, v, t) == [key |-> k, value |-> v, ts |-> t]

StoreKeys(st) == {st[i].key : i \in 1..Len(st)}
\* self._store[key]
StoreEntry(st, k) == st[CHOOSE i \in 1..Len(st) : st[i].key = k]
\* del self._store[key]
StoreDel(st, k) == SelectSeq(st, LAMBDA e : e.key # k)
\* self._store[key] = (v, t): a known key keeps its place in the dict
StoreSetItem(st, k, v, t) ==
    IF k \in StoreKeys(st)
    THEN [i \in 1..Len(st) |-> IF st[i].key = k THEN Entry(k, v, t) ELSE st[i]]
    ELSE Append(st, Entry(k, v, t))

\* sorted(self._store.items(), key=lambda x: x[1][1]): a stable sort by timestamp
RECURSIVE SortedItems(_)
SortedItems(st) ==
    IF st = <<>> THEN <<>>
    ELSE LET i == CHOOSE i \in 1..Len(st) :
                    /\ \A j \in 1..Len(st) : st[i].ts <= st[j].ts
                    /\ \A j \in 1..(i - 1) : st[j].ts > st[i].ts
         IN  <<st[i]>> \o SortedItems(SubSeq(st, 1, i - 1) \o SubSeq(st, i + 1, Len(st)))

\* mutant of OldestKeys: the sort reversed, the newest entries removed
NewestKeys(st) ==
    LET sorted_items == SortedItems(st)
        n == Len(sorted_items)
    IN  {sorted_items[i].key : i \in (n - Min(EVICT_COUNT, n) + 1)..n}

\* the keys of sorted_items[:100]
OldestKeys(st) ==
    LET sorted_items == SortedItems(st)
    IN  {sorted_items[i].key : i \in 1..Min(EVICT_COUNT, Len(sorted_items))}

\* mutant of Expired: >= for >
ExpiredAtTtl(timestamp, t) == t - timestamp >= CACHE_TTL_SECONDS

\* time.time() - timestamp > self._ttl
Expired(timestamp, t) == t - timestamp > CACHE_TTL_SECONDS

\* len(self._store) > 1000
OverLimit(st) == Len(st) > MAX_ENTRIES

\* SimpleCache.get at time t: the store after it and the dict it returns
cache_get(st, k, t) ==
    IF k \notin StoreKeys(st)
    THEN [store |-> st, ret |-> NoDict]
    ELSE LET e == StoreEntry(st, k)
         IN  IF Expired(e.ts, t)
             THEN [store |-> StoreDel(st, k), ret |-> NoDict]
             ELSE [store |-> st, ret |-> CopyDict(e.value)]

\* SimpleCache.set at time t: the store after it
cache_set(st, k, v, t) ==
    LET kept == IF OverLimit(st)
                THEN SelectSeq(st, LAMBDA e : e.key \notin OldestKeys(st))
                ELSE st
    IN  StoreSetItem(kept, k, CopyDict(v), t)

(***************************************************************************)
(* Requests: URLs, page snapshots and the result dicts built from them     *)
(***************************************************************************)
\* a URL holding a lone surrogate code point (JSON "\ud800" decodes to one)
URL_SURROGATE ==
    <<"U+D800">>

IsSurrogate(c) == c \in {"U+D800", "U+DFFF"}

\* url.encode() succeeds: UTF-8 cannot encode a lone surrogate
Utf8Encodable(u) == \A i \in 1..Len(u) : ~IsSurrogate(u[i])

\* hashlib.md5(url.encode()).hexdigest(): equal URLs give equal keys, distinct
\* URLs of the model distinct keys
Md5Hex(u) == <<"md5">> \o u

EmptyPage == [s \in AllSelectors |-> ABSENT]

\* ' TV '
TITLE_TV ==
    <<" ", "T", "V", " ">>
\* 'TV 2'
TITLE_TV2 ==
    <<"T", "V", " ", "2">>

\* what the rendered page shows at one fetch
Snapshots ==
    {[title |-> TITLE_TV, text |-> SCENARIO_C, dom |-> EmptyPage],
     [title |-> TITLE_TV2, text |-> F_P45,
      dom |-> [EmptyPage EXCEPT ![".price"] = Element(E_D899)]]}

\* structured_price or _find_main_price(page_text, all_prices, url)
MainPrice(snap, u) ==
    LET structured_price == extract_structured_price(snap.dom, u).price
    IN  IF structured_price # <<>> THEN structured_price
        ELSE find_main_price(snap.text, FindPrices(snap.text), u)

\* list(dict.fromkeys(all_prices))[:10] of the snapshot's text
SnapshotPrices(snap) == ReportedPrices(FindPrices(snap.text))

RequestUrls == ExtractorUrls \cup {URL_SURROGATE}

\* the extraction of every snapshot for every URL, computed once
Extracted ==
    [u \in RequestUrls |->
        [snap \in Snapshots |->
            [title |-> Strip(snap.title),
             price |-> MainPrice(snap, u),
             all_prices |-> SnapshotPrices(snap)]]]

\* what the extraction steps can yield for the URL u
Extractions(u) == {Extracted[u][snap] : snap \in Snapshots}

\* the result dict of a successful scrape that extracted x; l is the reference
\* of the new all_prices list
SuccessResult(u, x, l, t) ==
    [k \in {"success", "url", "title", "price", "all_prices", "timestamp",
            "load_time_ms"} |->
        CASE k = "success" -> TRUE
          [] k = "url" -> u
          [] k = "title" -> x.title
          [] k = "price" -> x.price
          [] k = "all_prices" -> l
          [] k = "timestamp" -> t
          [] k = "load_time_ms" -> 0]

\* the result dict of the except branch
FailureResult(u, e, t) ==
    [x \in {"success", "url", "error", "timestamp", "load_time_ms"} |->
        CASE x = "success" -> FALSE
          [] x = "url" -> u
          [] x = "error" -> e
          [] x = "timestamp" -> t
          [] x = "load_time_ms" -> 0]

(***************************************************************************)
(* The cache used directly by a client that keeps the dict it handed in or *)
(* was handed out, and may change it                                       *)
(***************************************************************************)
CacheUrls == {URL_SHOP, URL_JB, URL_OW}

NoOp == [op |-> "init", key |-> <<>>, present |-> FALSE, age |-> 0, evicted |-> {}]

InitCache ==
    /\ store = <<>>
    /\ now = 0
    /\ heap = EmptyHeap
    /\ held = NoDict
    /\ last = NoOp
    /\ thr = NoThreads
    /\ calls = None
    /\ url = None /\ page_text = None /\ page = None /\ phase = "cache"
    /\ out = None

\* the client builds a result from the extraction x and calls
\* cache.set(key, result)
CacheSet(u, x) ==
    /\ \E d \in {SuccessResult(u, x, Len(heap) + 1, now)} :
        \E c \in {Collect(cache_set(store, Md5Hex(u), d, now),
                           Append(heap, x.all_prices), d)} :
            /\ store' = c.store
            /\ heap' = c.heap
            /\ held' = c.held
    /\ last' = [op |-> "set", key |-> Md5Hex(u),
                present |-> Md5Hex(u) \in StoreKeys(store), age |-> 0,
                evicted |-> IF OverLimit(store) THEN OldestKeys(store) ELSE {}]
    /\ UNCHANGED <<now, thr, calls, url, page_text, page, phase, out>>

\* the client calls cache.get(key) and keeps what it returns
CacheGet(u) ==
    /\ \E r \in {cache_get(store, Md5Hex(u), now)} :
        \E c \in {Collect(r.store, heap, r.ret)} :
            /\ store' = c.store
            /\ heap' = c.heap
            /\ held' = c.held
    /\ last' = [op |-> "get", key |-> Md5Hex(u),
                present |-> Md5Hex(u) \in StoreKeys(store),
                age |-> IF Md5Hex(u) \in StoreKeys(store)
                        THEN now - StoreEntry(store, Md5Hex(u)).ts ELSE 0,
                evicted |-> {}]
    /\ UNCHANGED <<now, thr, calls, url, page_text, page, phase, out>>

\* the client sets a field of the dict it holds: result["cache_hit"] = True
ClientSetField ==
    /\ held # NoDict
    /\ held' = SetItem(held, "cache_hit", TRUE)
    /\ last' = [NoOp EXCEPT !.op = "set field"]
    /\ UNCHANGED <<store, now, heap, thr, calls, url, page_text, page, phase, out>>

\* the client appends to the list of the dict it holds a token the list does
\* not hold yet: result["all_prices"].append(tok)
ClientAppend(tok) ==
    /\ held # NoDict
    /\ HasList(held)
    /\ tok \notin Range(heap[held["all_prices"]])
    /\ heap' = [heap EXCEPT ![held["all_prices"]] = Append(@, tok)]
    /\ last' = [NoOp EXCEPT !.op = "append"]
    /\ UNCHANGED <<store, now, held, thr, calls, url, page_text, page, phase, out>>

\* time passes
Tick ==
    /\ now < MaxNow
    /\ now' = now + 1
    /\ last' = [op |-> "tick"]
    /\ UNCHANGED <<store, heap, held, thr, calls, url, page_text, page, phase, out>>

NextCache ==
    \/ \E u \in CacheUrls : \E x \in Extractions(u) : CacheSet(u, x)
    \/ \E u \in CacheUrls : CacheGet(u)
    \/ Tick

\* a client that leaves the dicts it holds alone
SpecCache == InitCache /\ [][NextCache]_vars

NextClient ==
    \/ \E u \in CacheUrls : \E x \in Extractions(u) : CacheSet(u, x)
    \/ \E u \in CacheUrls : CacheGet(u)
    \/ Tick
    \/ ClientSetField
    \/ ClientAppend(P200)

\* a client that changes the dicts it holds
SpecClient == InitCache /\ [][NextClient]_vars


\* what a reader of the store sees: every entry with its list read through
DeepStore(st, h) ==
    [i \in 1..Len(st) |-> [st[i] EXCEPT !.value = Deep(h, @)]]

\* C2: a dict handed out by get or handed in to set is independent of the
\* stored entry: whatever the client does to it (setting cache_hit, appending
\* to its all_prices list), the stored entries read the same as before.
C2_StoredEntryIndependent ==
    [][last'.op \in {"set field", "append"} =>
            DeepStore(store', heap') = DeepStore(store, heap)]_vars

\* C3: a get of a key whose entry is older than the TTL returns None and
\* removes the entry; a get of a key whose entry is at most TTL old returns the
\* stored value and leaves the store as it was.
C3_TtlOnRead ==
    [][\A u \in CacheUrls :
        LET k == Md5Hex(u)
        IN  (last'.op = "get" /\ last'.key = k /\ k \in StoreKeys(store)) =>
                LET e == StoreEntry(store, k)
                IN  IF now - e.ts > CACHE_TTL_SECONDS
                    THEN /\ held' = NoDict
                         /\ k \notin StoreKeys(store')
                         /\ DeepStore(store', heap') = DeepStore(StoreDel(store, k), heap)
                    ELSE /\ held' # NoDict
                         /\ Deep(heap', held') = Deep(heap, e.value)
                         /\ DeepStore(store', heap') = DeepStore(store, heap)]_vars

\* C3 witness: a get has just found an entry older than the TTL and removed it.
C3_Witness ==
    /\ last.op = "get"
    /\ last.present
    /\ last.age > CACHE_TTL_SECONDS
    /\ last.key \notin StoreKeys(store)
    /\ held = NoDict

KeyTs(st, k) == StoreEntry(st, k).ts

\* C4: the store never holds more than MAX_ENTRIES + 1 entries (1001 in the
\* code); a set that finds more than MAX_ENTRIES entries removes EVICT_COUNT
\* of them before it inserts, none of them newer than an entry it keeps, and a
\* set that finds at most MAX_ENTRIES entries removes none.
C4_BoundedOldestEvicted ==
    [][/\ Len(store') <= MAX_ENTRIES + 1
       /\ \A u \in CacheUrls :
            LET k == Md5Hex(u)
                old == StoreKeys(store)
            IN  (last'.op = "set" /\ last'.key = k) =>
                    IF Len(store) > MAX_ENTRIES
                    THEN \E V \in SUBSET old :
                            /\ Cardinality(V) = EVICT_COUNT
                            /\ \A v \in V : \A w \in old \ V :
                                    KeyTs(store, v) <= KeyTs(store, w)
                            /\ StoreKeys(store') = (old \ V) \cup {k}
                            /\ \A w \in old \ (V \cup {k}) :
                                    StoreEntry(store', w).ts = KeyTs(store, w)
                    ELSE /\ StoreKeys(store') = old \cup {k}
                         /\ \A w \in old \ {k} :
                                StoreEntry(store', w).ts = KeyTs(store, w)]_vars

\* C4 witness: a set has just found the store over its limit and evicted.
C4_Witness ==
    /\ last.op = "set"
    /\ last.evicted # {}
    /\ last.evicted \cap StoreKeys(store) \subseteq {last.key}


(***************************************************************************)
(* PriceScraper.extract_price and the webhook loop that calls it           *)
(***************************************************************************)
\* the calls of the try block that can raise, in the order they are made
\* (goto stands for all the calls made on the page inside the inner try: route,
\* goto, wait_for_timeout, the selector queries and the evaluate calls)
Steps ==
    <<"start", "launch", "new_context", "new_page", "goto">>

NoFailure == "none"
Failures == Range(Steps) \cup {NoFailure}

StepIndex(step) == CHOOSE i \in 1..Len(Steps) : Steps[i] = step

\* the call step returned normally when the call f (if any) is the one that raises
Returned(step, f) == f = NoFailure \/ StepIndex(step) < StepIndex(f)

\* the rendering resources the request has got hold of
Acquired(f) ==
    (IF Returned("start", f) THEN {"playwright"} ELSE {})
        \cup (IF Returned("launch", f) THEN {"browser"} ELSE {})
        \cup (IF Returned("new_context", f) THEN {"context"} ELSE {})
        \cup (IF Returned("new_page", f) THEN {"page"} ELSE {})

\* the resources whose close()/stop() the finally blocks call: the inner
\* finally is entered once new_page() has returned, the outer one closes
\* browser and playwright if they are set (an exception of a close() or
\* stop() is caught where it is raised and changes nothing)
CloseInvoked(f) ==
    (IF Returned("new_page", f) THEN {"page", "context"} ELSE {})
        \cup (IF Returned("launch", f) THEN {"browser"} ELSE {})
        \cup (IF Returned("start", f) THEN {"playwright"} ELSE {})

\* mutant of IsCached: the cached dict is never used
NeverCached(cached) == FALSE

\* if cached:
IsCached(cached) == cached # NoDict

\* extract_price(u) at time t, when the extraction steps yield x and the call
\* f raises.
\*   raised: the exception escapes extract_price (no result is returned)
\*   hit: the result came from the cache; fetched: a browser was started
extract_price(st, h, u, x, f, t) ==
    IF ~Utf8Encodable(u)
    THEN [raised |-> TRUE, hit |-> FALSE, fetched |-> FALSE, store |-> st,
          heap |-> h, result |-> NoDict, acquired |-> {}, closed |-> {}]
    ELSE LET cache_key == Md5Hex(u)
             got == cache_get(st, cache_key, t)
             result == SuccessResult(u, x, Len(h) + 1, t)
         IN  IF IsCached(got.ret)
             THEN [raised |-> FALSE, hit |-> TRUE, fetched |-> FALSE,
                   store |-> got.store, heap |-> h,
                   result |-> SetItem(got.ret, "cache_hit", TRUE),
                   acquired |-> {}, closed |-> {}]
             ELSE IF f = NoFailure
             THEN [raised |-> FALSE, hit |-> FALSE, fetched |-> TRUE,
                   store |-> cache_set(got.store, cache_key, result, t),
                   heap |-> Append(h, x.all_prices),
                   result |-> result,
                   acquired |-> Acquired(f), closed |-> CloseInvoked(f)]
             ELSE [raised |-> FALSE, hit |-> FALSE, fetched |-> TRUE,
                   store |-> got.store, heap |-> h,
                   result |-> FailureResult(u, f, t),
                   acquired |-> Acquired(f), closed |-> CloseInvoked(f)]

\* no call on record
NoCall == [at |-> -1]

\* what a call returned: the time and the extraction fields of the result
CallRecord(h, d, t) ==
    [at |-> t,
     success |-> d["success"],
     title |-> IF "title" \in DOMAIN d THEN d["title"] ELSE NoPrice,
     price |-> IF "price" \in DOMAIN d THEN d["price"] ELSE NoPrice,
     all_prices |-> IF HasList(d) THEN h[d["all_prices"]] ELSE <<NoPrice>>]

InitService ==
    /\ store = <<>>
    /\ now = 0
    /\ heap = EmptyHeap
    /\ held = NoDict
    /\ last = [op |-> "init"]
    /\ calls = [u \in RequestUrls |-> NoCall]
    /\ thr = NoThreads
    /\ url = None /\ page_text = None /\ page = None /\ phase = "service"
    /\ out = None

\* a call served from the cache or ended by the encoding error makes none of
\* the calls that can fail
InputsRead(u, f) ==
    (~Utf8Encodable(u) \/ cache_get(store, Md5Hex(u), now).ret # NoDict)
        => f = NoFailure

\* one iteration of the webhook loop: result = extract_price(url), then
\* result["pid"] = pid and result["comp_key"] = comp_key; an exception that
\* escapes extract_price ends the webhook in its except branch.
\* calls[u] keeps what the latest call for u that went to the page returned.
Webhook(u, x, f) ==
    /\ InputsRead(u, f)
    /\ \E r \in {extract_price(store, heap, u, x, f, now)} :
        \E c \in {Collect(r.store, r.heap,
                           IF r.raised THEN NoDict
                           ELSE SetItem(SetItem(r.result, "pid", "pid"),
                                        "comp_key", "comp1_url"))} :
            /\ store' = c.store
            /\ heap' = c.heap
            /\ held' = c.held
            /\ last' = [op |-> "extract", url |-> u, raised |-> r.raised,
                        hit |-> r.hit, fetched |-> r.fetched, failure |-> f,
                        acquired |-> r.acquired, closed |-> r.closed]
            /\ calls' = IF r.fetched
                        THEN [calls EXCEPT ![u] = CallRecord(r.heap, r.result, now)]
                        ELSE calls
    /\ UNCHANGED <<now, thr, url, page_text, page, phase, out>>

\* time passes; a call on record older than the TTL is of no use any more
ServiceTick ==
    /\ now < MaxNow
    /\ now' = now + 1
    /\ last' = [op |-> "tick"]
    /\ calls' = [u \in RequestUrls |->
                    IF now' - calls[u].at > CACHE_TTL_SECONDS THEN NoCall ELSE calls[u]]
    /\ UNCHANGED <<store, heap, held, thr, url, page_text, page, phase, out>>

ServiceUrls == {URL_SHOP, URL_JB, URL_OW, URL_SURROGATE}

NextService ==
    \/ \E u \in ServiceUrls : \E x \in Extractions(u) : \E f \in Failures :
            Webhook(u, x, f)
    \/ ServiceTick

Spec == InitService /\ [][NextService]_vars

\* the call just made for u came at most TTL after the call on record for u
WithinTtl(u) ==
    /\ last'.op = "extract"
    /\ last'.url = u
    /\ calls[u] # NoCall
    /\ now - calls[u].at <= CACHE_TTL_SECONDS

\* the result the caller holds is a cache hit that repeats the call on record
RepeatsAsHit(u) ==
    /\ ~last'.raised
    /\ last'.hit
    /\ ~last'.fetched
    /\ "cache_hit" \in DOMAIN held'
    /\ held'["cache_hit"] = TRUE
    /\ CallRecord(heap', held', calls[u].at) = calls[u]

\* C1 as the specification states it: the second of two calls for a URL within
\* the TTL window returns the price, title and all_prices of the first with
\* cache_hit = true and fetches no page, whether the first call succeeded or
\* returned a failure result.
C1_SecondCallCached ==
    [][\A u \in ServiceUrls : WithinTtl(u) => RepeatsAsHit(u)]_vars

\* C1 amended: a call that fetched the page and succeeded leaves its result in
\* the cache; while that entry has not been evicted under size pressure, a call
\* for the same URL at most TTL later returns the same price, title and
\* all_prices with cache_hit = true and fetches no page. A call that returned a
\* failure result is not cached: the next call for the URL fetches again.
C1_SuccessCachedWithinTtl ==
    [][\A u \in ServiceUrls :
        /\ (last'.op = "extract" /\ last'.url = u /\ last'.fetched
                /\ last'.failure = NoFailure)
              => (Md5Hex(u) \in StoreKeys(store') /\ calls'[u].success)
        /\ WithinTtl(u) =>
              IF calls[u].success
              THEN Md5Hex(u) \in StoreKeys(store) => RepeatsAsHit(u)
              ELSE last'.fetched /\ ~last'.hit]_vars

\* C1 witness: a call made a tick after the successful call on record has been
\* served from the cache.
C1_Witness ==
    /\ last.op = "extract"
    /\ last.hit
    /\ calls[last.url] # NoCall
    /\ calls[last.url].success
    /\ calls[last.url].at < now
    /\ "cache_hit" \in DOMAIN held
    /\ CallRecord(heap, held, calls[last.url].at) = calls[last.url]

\* C5: extract_price never raises: every call returns a result, and a call in
\* which a step failed returns success = false with error, timestamp and
\* load_time_ms.
C5_NeverRaises ==
    last.op = "extract" =>
        /\ ~last.raised
        /\ held # NoDict
        /\ last.failure # NoFailure =>
                /\ held["success"] = FALSE
                /\ {"error", "timestamp", "load_time_ms"} \subseteq DOMAIN held

\* C6: when extract_price returns, close()/stop() has been invoked on every
\* rendering resource the call acquired.
C6_AcquiredAreClosed ==
    last.op = "extract" => last.acquired \subseteq last.closed


(***************************************************************************)
(* Concurrent requests: extract_price run by two threads of the hosting    *)
(* server against the one global cache. A step is one statement of         *)
(* SimpleCache.get or SimpleCache.set; the threads interleave between      *)
(* statements.                                                             *)
(***************************************************************************)
Threads == {"t1", "t2"}

\* the pages show one thing while the threads run
PagesNow(u) == {Extracted[u][snap] : snap \in {s \in Snapshots : s.title = TITLE_TV}}

Idle == [pc |-> "idle", url |-> <<>>, timestamp |-> 0, old_keys |-> <<>>, x |-> NoDict]

InitConcurrent ==
    /\ store = <<>>
    /\ now = 0
    /\ heap = EmptyHeap
    /\ held = NoDict
    /\ last = [op |-> "init"]
    /\ thr = [t \in Threads |-> Idle]
    /\ calls = None
    /\ url = None /\ page_text = None /\ page = None /\ phase = "concurrent"
    /\ out = None

Others == <<now, heap, held, calls, url, page_text, page, phase, out>>

\* the thread t ends its request with the outcome o
Ends(t, o) ==
    /\ thr' = [thr EXCEPT ![t] = Idle]
    /\ last' = [op |-> o, url |-> thr[t].url]

\* the thread t moves on to the statement pc
Goes(t, pc) ==
    /\ thr' = [thr EXCEPT ![t].pc = pc]
    /\ last' = [op |-> "step"]

\* a request for u arrives and is given to the idle thread t
Begin(t, u) ==
    /\ thr[t].pc = "idle"
    /\ thr' = [thr EXCEPT ![t] = [Idle EXCEPT !.pc = "get: in", !.url = u]]
    /\ last' = [op |-> "step"]
    /\ UNCHANGED <<store, Others>>

\* get: if key not in self._store: return None
GetIn(t) ==
    /\ thr[t].pc = "get: in"
    /\ IF Md5Hex(thr[t].url) \in StoreKeys(store)
       THEN Goes(t, "get: read")
       ELSE Goes(t, "fetch")
    /\ UNCHANGED <<store, Others>>

\* get: value, timestamp = self._store[key]; a KeyError here is raised before
\* the try block of extract_price is entered
GetRead(t) ==
    /\ thr[t].pc = "get: read"
    /\ IF Md5Hex(thr[t].url) \in StoreKeys(store)
       THEN /\ thr' = [thr EXCEPT ![t].pc = "get: age",
                                  ![t].timestamp = StoreEntry(store, Md5Hex(thr[t].url)).ts]
            /\ last' = [op |-> "step"]
       ELSE Ends(t, "KeyError in get")
    /\ UNCHANGED <<store, Others>>

\* get: if time.time() - timestamp > self._ttl; else return value.copy()
GetAge(t) ==
    /\ thr[t].pc = "get: age"
    /\ IF Expired(thr[t].timestamp, now)
       THEN Goes(t, "get: del")
       ELSE Ends(t, "cache hit")
    /\ UNCHANGED <<store, Others>>

\* get: del self._store[key]; return None
GetDel(t) ==
    /\ thr[t].pc = "get: del"
    /\ IF Md5Hex(thr[t].url) \in StoreKeys(store)
       THEN /\ store' = StoreDel(store, Md5Hex(thr[t].url))
            /\ Goes(t, "fetch")
       ELSE /\ Ends(t, "KeyError in get")
            /\ UNCHANGED store
    /\ UNCHANGED Others

\* the page of u is fetched and the result dict built from the extraction x
Fetch(t, u, x) ==
    /\ thr[t].pc = "fetch"
    /\ thr[t].url = u
    /\ thr' = [thr EXCEPT ![t].pc = "set: len", ![t].x = x]
    /\ last' = [op |-> "step"]
    /\ UNCHANGED <<store, Others>>

\* set: if len(self._store) > 1000
SetLen(t) ==
    /\ thr[t].pc = "set: len"
    /\ IF OverLimit(store)
       THEN Goes(t, "set: sorted")
       ELSE Goes(t, "set: insert")
    /\ UNCHANGED <<store, Others>>

\* set: sorted_items = sorted(self._store.items(), ...); the loop then runs
\* over sorted_items[:100]
SetSorted(t) ==
    /\ thr[t].pc = "set: sorted"
    /\ thr' = [thr EXCEPT ![t].pc = "set: del",
                          ![t].old_keys =
                              LET sorted_items == SortedItems(store)
                              IN  [i \in 1..Min(EVICT_COUNT, Len(sorted_items)) |->
                                        sorted_items[i].key]]
    /\ last' = [op |-> "step"]
    /\ UNCHANGED <<store, Others>>

\* set: del self._store[old_key], once per turn of the loop; a KeyError here
\* is caught by the except branch of extract_price, which returns a failure
\* result in place of the result that was extracted
SetDel(t) ==
    /\ thr[t].pc = "set: del"
    /\ IF thr[t].old_keys = <<>>
       THEN /\ Goes(t, "set: insert")
            /\ UNCHANGED store
       ELSE IF Head(thr[t].old_keys) \in StoreKeys(store)
       THEN /\ store' = StoreDel(store, Head(thr[t].old_keys))
            /\ thr' = [thr EXCEPT ![t].old_keys = Tail(@)]
            /\ last' = [op |-> "step"]
       ELSE /\ Ends(t, "KeyError in set")
            /\ UNCHANGED store
    /\ UNCHANGED Others

\* set: self._store[key] = (value.copy(), time.time()); the result is returned
SetInsert(t) ==
    /\ thr[t].pc = "set: insert"
    /\ \E c \in {Collect(StoreSetItem(store, Md5Hex(thr[t].url),
                                      CopyDict(SuccessResult(thr[t].url, thr[t].x,
                                                             Len(heap) + 1, now)),
                                      now),
                         Append(heap, thr[t].x.all_prices), NoDict)} :
            /\ store' = c.store
            /\ heap' = c.heap
    /\ Ends(t, "stored")
    /\ UNCHANGED <<now, held, calls, url, page_text, page, phase, out>>

\* time passes
ConcurrentTick ==
    /\ now < MaxNow
    /\ now' = now + 1
    /\ last' = [op |-> "tick"]
    /\ UNCHANGED <<store, heap, held, thr, calls, url, page_text, page, phase, out>>

NextConcurrent ==
    \/ \E t \in Threads : \E u \in CacheUrls : Begin(t, u)
    \/ \E t \in Threads : GetIn(t)
    \/ \E t \in Threads : GetRead(t)
    \/ \E t \in Threads : GetAge(t)
    \/ \E t \in Threads : GetDel(t)
    \/ \E t \in Threads : \E u \in CacheUrls : \E x \in PagesNow(u) : Fetch(t, u, x)
    \/ \E t \in Threads : SetLen(t)
    \/ \E t \in Threads : SetSorted(t)
    \/ \E t \in Threads : SetDel(t)
    \/ \E t \in Threads : SetInsert(t)
    \/ ConcurrentTick

SpecConcurrent == InitConcurrent /\ [][NextConcurrent]_vars

\* C7: with requests running concurrently the cache operations take effect
\* atomically: no get and no set faults on a key another request has removed,
\* and no extracted result is turned into a failure by the cache write.
C7_CacheOpsAtomic ==
    last.op \notin {"KeyError in get", "KeyError in set"}

====
